---- MODULE Spec2Model ----
(***************************************************************************)
(* Model of pyo3-derive-backend/src/module.rs: the code generation for     *)
(* the function that initializes a python module and adds functions.       *)
(*                                                                         *)
(* Text (identifier names, string literals) is a sequence of one-character *)
(* strings, so that prefixes, raw-identifier markers and NUL terminators   *)
(* are computed and not assumed.  A syn::Ident is [raw, sym]; a result     *)
(* that may panic is [panic |-> TRUE] or [panic |-> FALSE, val |-> v].     *)
(***************************************************************************)
EXTENDS Integers, Sequences, FiniteSets, TLC

\* ------------------------------------------------------------------ bounds
MaxStmts == 2
MaxAttrs == 2
MaxInputs == 2

\* ------------------------------------------------------- text and idents
Letters ==
    {"a","b","c","d","e","f","g","h","i","j","k","l","m","n","o","p","q","r",
     "s","t","u","v","w","x","y","z","P","I"}

Digits == {"0","1","2","3","4","5","6","7","8","9"}

IsXidStart(c) == c \in Letters \cup {"_"}

IsXidContinue(c) == c \in Letters \cup Digits \cup {"_"}

\* proc_macro2: xid_ok inside validate_term
xid_ok(s) ==
    /\ Len(s) > 0
    /\ IsXidStart(s[1])
    /\ \A k \in 2..Len(s) : IsXidContinue(s[k])

Panic == [panic |-> TRUE]

Ok(v) == [panic |-> FALSE, val |-> v]

RawPrefix == <<"r", "#">>

StartsWith(s, p) == Len(s) >= Len(p) /\ SubSeq(s, 1, Len(p)) = p

\* Display for Ident / Ident::to_string: a raw identifier prints as r#sym
to_string(id) == IF id.raw THEN RawPrefix \o id.sym ELSE id.sym

\* Ident::new(string, span): panics unless the string is a plain identifier
Ident_new(s) == IF xid_ok(s) THEN Ok([raw |-> FALSE, sym |-> s]) ELSE Panic

\* str::trim_start_matches(pat): removes every leading repetition of pat
RECURSIVE trim_start_matches(_, _)
trim_start_matches(s, p) ==
    IF Len(p) > 0 /\ StartsWith(s, p)
    THEN trim_start_matches(SubSeq(s, Len(p) + 1, Len(s)), p)
    ELSE s

\* words syn's accept_as_ident refuses
Keywords == {<<"_">>, <<"f","n">>, <<"a","s">>, <<"i","f">>, <<"i","n">>}

RECURSIVE TrimStart(_)
TrimStart(s) == IF Len(s) > 0 /\ s[1] = " " THEN TrimStart(Tail(s)) ELSE s

RECURSIVE TrimEnd(_)
TrimEnd(s) ==
    IF Len(s) > 0 /\ s[Len(s)] = " " THEN TrimEnd(SubSeq(s, 1, Len(s) - 1)) ELSE s

\* syn::parse_str::<syn::Ident>: the text must lex as one identifier token
\* (surrounding white space is skipped) that is not a keyword
parse_str(text) ==
    LET s == TrimEnd(TrimStart(text)) IN
    IF StartsWith(s, RawPrefix) /\ xid_ok(SubSeq(s, 3, Len(s)))
    THEN [ok |-> TRUE, val |-> [raw |-> TRUE, sym |-> SubSeq(s, 3, Len(s))]]
    ELSE IF xid_ok(s) /\ s \notin Keywords
    THEN [ok |-> TRUE, val |-> [raw |-> FALSE, sym |-> s]]
    ELSE [ok |-> FALSE]

\* stringify!(#ident)
stringify(id) == to_string(id)

PyInitPrefix == <<"P","y","I","n","i","t","_">>

InitPrefix == <<"i","n","i","t">>

WrapperPrefix ==
    <<"_","_","p","y","o","3","_","g","e","t","_",
      "f","u","n","c","t","i","o","n","_">>

NUL == "\\0"

NoTokens == [kind |-> "none"]

\* make_module(concat!(stringify!(#name), "\0"), #doc, #fnname)
make_module_call(fnname, name, doc) ==
    [callee |-> "make_module",
     args |-> <<stringify(name) \o <<NUL>>, doc, fnname>>]

py3_init(fnname, name, doc) ==
    LET cb_name == Ident_new(PyInitPrefix \o to_string(name)) IN
    IF cb_name.panic THEN Panic
    ELSE Ok(<<[kind |-> "ExternFn", no_mangle |-> TRUE, abi |-> "C",
               ident |-> cb_name.val, ret |-> "*mut PyObject",
               body |-> <<make_module_call(fnname, name, doc)>>]>>)

py2_init(fnname, name, doc) ==
    LET cb_name == Ident_new(InitPrefix \o to_string(name)) IN
    IF cb_name.panic THEN Panic
    ELSE Ok(<<[kind |-> "ExternFn", no_mangle |-> TRUE, abi |-> "C",
               ident |-> cb_name.val, ret |-> "()",
               body |-> <<make_module_call(fnname, name, doc)>>]>>)

\* ------------------------------------------------------------ options
None == [some |-> FALSE]

Some(v) == [some |-> TRUE, val |-> v]

\* ------------------------------------------------- extract_pyfn_attrs
\* args::parse_arguments: one args::Argument per nested meta item
parse_arguments(items) == [k \in 1..Len(items) |-> [argument |-> items[k]]]

\* Some(syn::Meta::List(ref list)) if list.ident == "pyfn"
IsPyfnList(attr) == attr.meta = "List" /\ attr.ident = "pyfn"

\* pyfn_arm without the error for a pyfn attribute of fewer than two
\* parameters: the attribute is dropped silently
pyfn_arm_lenient(st, attr) ==
    LET meta == attr.nested IN
    IF Len(meta) >= 2
    THEN IF meta[1].nm # "Word" THEN Panic
         ELSE IF meta[2].nm # "LitStr" THEN Panic
         ELSE LET parsed == parse_str(meta[2].value) IN
              IF ~parsed.ok THEN Panic
              ELSE Ok([st EXCEPT
                        !.modname = Some(meta[1].ident),
                        !.fnname = Some(parsed.val),
                        !.fn_attrs =
                            IF Len(attr.nested) >= 3
                            THEN parse_arguments(SubSeq(meta, 3, Len(meta)))
                            ELSE @])
    ELSE Ok(st)

\* body of the match arm for one list-form pyfn attribute (lines 114-136);
\* st is the record of the locals modname, fnname, fn_attrs, new_attrs
pyfn_arm(st, attr) ==
    LET meta == attr.nested IN
    IF Len(meta) >= 2
    THEN IF meta[1].nm # "Word" THEN Panic
         ELSE IF meta[2].nm # "LitStr" THEN Panic
         ELSE LET parsed == parse_str(meta[2].value) IN
              IF ~parsed.ok THEN Panic
              ELSE Ok([st EXCEPT
                        !.modname = Some(meta[1].ident),
                        !.fnname = Some(parsed.val),
                        !.fn_attrs =
                            IF Len(attr.nested) >= 3
                            THEN parse_arguments(SubSeq(meta, 3, Len(meta)))
                            ELSE @])
    ELSE Panic

\* the loop `for attr in attrs.iter()` from position k on
RECURSIVE extract_loop(_, _, _)
extract_loop(attrs, k, st) ==
    IF k > Len(attrs) THEN Ok(st)
    ELSE IF IsPyfnList(attrs[k])
    THEN LET r == pyfn_arm(st, attrs[k]) IN
         IF r.panic THEN Panic ELSE extract_loop(attrs, k + 1, r.val)
    ELSE extract_loop(attrs, k + 1,
                      [st EXCEPT !.new_attrs = Append(@, attrs[k])])

\* extract_pyfn_attrs without `*attrs = new_attrs`
extract_pyfn_attrs_noassign(attrs) ==
    LET r == extract_loop(attrs, 1,
                 [new_attrs |-> <<>>, fnname |-> None, modname |-> None,
                  fn_attrs |-> <<>>]) IN
    IF r.panic THEN Panic
    ELSE Ok([attrs |-> attrs,
             ret |-> IF r.val.modname.some /\ r.val.fnname.some
                     THEN Some([module_name |-> r.val.modname.val,
                                python_name |-> r.val.fnname.val,
                                pyfn_attrs |-> r.val.fn_attrs])
                     ELSE None])

\* returns Panic, or Ok([attrs |-> the attribute list afterwards,
\*                       ret |-> None or Some(module, python name, args)])
extract_pyfn_attrs(attrs) ==
    LET r == extract_loop(attrs, 1,
                 [new_attrs |-> <<>>, fnname |-> None, modname |-> None,
                  fn_attrs |-> <<>>]) IN
    IF r.panic THEN Panic
    ELSE Ok([attrs |-> r.val.new_attrs,
             ret |-> IF r.val.modname.some /\ r.val.fnname.some
                     THEN Some([module_name |-> r.val.modname.val,
                                python_name |-> r.val.fnname.val,
                                pyfn_attrs |-> r.val.fn_attrs])
                     ELSE None])

\* ---------------------------------------------------- wrap_fn_argument
\* method::check_arg_ty_and_optional: is the type an Option<..> path
check_arg_ty_and_optional(name, ty) ==
    ty.ty = "Path" /\ Len(ty.segments) > 0
                   /\ ty.segments[Len(ty.segments)] = "Option"

\* method::is_ref
is_ref(name, ty) == ty.ty = "Reference"

\* the `py` flag taken from the first path segment instead of the last
is_python_ty_first(ty) ==
    IF ty.ty = "Path"
    THEN IF Len(ty.segments) > 0
         THEN ty.segments[1] = "Python"
         ELSE FALSE
    ELSE FALSE

\* the `py` flag: a path type whose last segment is named Python
is_python_ty(ty) ==
    IF ty.ty = "Path"
    THEN IF Len(ty.segments) > 0
         THEN ty.segments[Len(ty.segments)] = "Python"
         ELSE FALSE
    ELSE FALSE

\* wrap_fn_argument skipping ignored and inferred arguments
wrap_fn_argument_skip(input, name) ==
    CASE input.arg \in {"SelfRef", "SelfValue"} -> Ok(None)
      [] input.arg = "Captured" ->
            IF input.pat.pat = "Ident"
            THEN Ok(Some([name |-> input.pat.ident,
                          mutability |-> input.pat.mutability,
                          by_ref |-> input.pat.by_ref,
                          ty |-> input.ty,
                          optional |-> check_arg_ty_and_optional(name, input.ty),
                          py |-> is_python_ty(input.ty),
                          reference |-> is_ref(name, input.ty)]))
            ELSE Panic
      [] input.arg = "Ignored" -> Ok(None)
      [] input.arg = "Inferred" -> Ok(None)

wrap_fn_argument(input, name) ==
    CASE input.arg \in {"SelfRef", "SelfValue"} -> Ok(None)
      [] input.arg = "Captured" ->
            IF input.pat.pat = "Ident"
            THEN Ok(Some([name |-> input.pat.ident,
                          mutability |-> input.pat.mutability,
                          by_ref |-> input.pat.by_ref,
                          ty |-> input.ty,
                          optional |-> check_arg_ty_and_optional(name, input.ty),
                          py |-> is_python_ty(input.ty),
                          reference |-> is_ref(name, input.ty)]))
            ELSE Panic
      [] input.arg = "Ignored" -> Panic
      [] input.arg = "Inferred" -> Panic

\* ------------------------------------------------ function_wrapper_ident
function_wrapper_ident(name) ==
    Ident_new(WrapperPrefix \o trim_start_matches(to_string(name), RawPrefix))

\* --------------------------------------------------- function_c_wrapper
RECURSIVE Decimal(_)
Decimal(n) ==
    LET d == <<"0","1","2","3","4","5","6","7","8","9">> IN
    IF n < 10 THEN <<d[n + 1]>> ELSE Decimal(n \div 10) \o <<d[(n % 10) + 1]>>

\* the identifier passed for the argument at 0-based position idx
arg_name(idx, fn_arg) ==
    IF fn_arg.py
    THEN Ident_new(<<"_","p","y">>).val
    ELSE Ident_new(<<"a","r","g">> \o Decimal(idx)).val

\* py_method::impl_arg_params: argument extraction code around the call cb
impl_arg_params(spec, cb) == [extracts |-> spec.args, cb |-> cb]

\* py_method::body_to_result
body_to_result(body, spec) == [result_of |-> body, output |-> spec.output]

function_c_wrapper(name, spec) ==
    LET names == [k \in 1..Len(spec.args) |-> arg_name(k - 1, spec.args[k])]
        cb == [callee |-> name, args |-> names]
        body == impl_arg_params(spec, cb)
    IN  [kind |-> "ExternFn", ident |-> "__wrap", abi |-> "C",
         location |-> stringify(name) \o <<"(", ")">>,
         body |-> body_to_result(body, spec)]

\* ----------------------------------------------------- add_fn_to_module
\* method::get_return_info
get_return_info(output) == [ret |-> output]

\* utils::get_doc: the text of the doc attributes
get_doc(attrs) ==
    LET docs == SelectSeq(attrs, LAMBDA a : a.meta = "NameValue" /\ a.ident = "doc")
    IN  [k \in 1..Len(docs) |-> docs[k].lit]

\* lines 174-213: the tokens built once the argument list is complete
add_fn_tokens(func, python_name, pyfn_attrs, arguments) ==
    LET spec == [tp |-> "Fn", attrs |-> pyfn_attrs, args |-> arguments,
                 output |-> get_return_info(func.output)]
        wrapper_ident == function_wrapper_ident(func.ident)
    IN  IF wrapper_ident.panic THEN Panic
        ELSE Ok([kind |-> "GenFn",
                 ident |-> wrapper_ident.val,
                 wrap |-> function_c_wrapper(func.ident, spec),
                 def |-> [ml_name |-> stringify(python_name),
                          ml_meth |-> "__wrap",
                          ml_doc |-> get_doc(func.attrs)]])

\* registration of the function itself instead of its wrapper
registration_direct(module_name, func_ident) ==
    Ok([kind |-> "Semi", recv |-> module_name, method |-> "add_wrapped",
        arg |-> func_ident, try |-> TRUE])

\* `#module_name.add_wrapped(&#function_wrapper_ident)?;` (lines 50, 54)
registration(module_name, func_ident) ==
    LET wrapper_ident == function_wrapper_ident(func_ident) IN
    IF wrapper_ident.panic THEN Panic
    ELSE Ok([kind |-> "Semi", recv |-> module_name, method |-> "add_wrapped",
             arg |-> wrapper_ident.val, try |-> TRUE])

\* the generated statements pushed after the statement instead of before
extend_and_push_after(acc, function_to_python, reg, stmt) ==
    Append(acc, stmt) \o <<function_to_python, reg>>

\* lines 57 and 60: stmts.extend(item.block.stmts); stmts.push(stmt.clone())
extend_and_push(acc, function_to_python, reg, stmt) ==
    Append(acc \o <<function_to_python, reg>>, stmt)

\* ------------------------------------------------------ #[pyclass] enum
\* build_py_enum refusing only `subclass`
build_py_enum_subclass_only(options) ==
    IF options.subclass
    THEN [error |-> TRUE, tokens |-> NoTokens]
    ELSE [error |-> FALSE, tokens |-> [kind |-> "PyClassEnum"]]

\* the pyclass expansion of an enum: `subclass` and `extends = ...` are
\* refused with a compile error and no tokens
build_py_enum(options) ==
    IF options.subclass
    THEN [error |-> TRUE, tokens |-> NoTokens]
    ELSE IF options.extends
    THEN [error |-> TRUE, tokens |-> NoTokens]
    ELSE [error |-> FALSE, tokens |-> [kind |-> "PyClassEnum"]]

\* ------------------------------------------------------------- inputs
Id(s) == [raw |-> FALSE, sym |-> s]

RawId(s) == [raw |-> TRUE, sym |-> s]

Attr(meta, ident, nested, lit) ==
    [meta |-> meta, ident |-> ident, nested |-> nested, lit |-> lit]

NWord(id) == [nm |-> "Word", ident |-> id, value |-> <<>>]

NStr(text) == [nm |-> "LitStr", ident |-> Id(<<>>), value |-> text]

\* #[pyfn(m, "f")]
PyfnTwo == Attr("List", "pyfn", <<NWord(Id(<<"m">>)), NStr(<<"f">>)>>, <<>>)

\* #[pyfn(n, "r#fn", "*")]
PyfnThree ==
    Attr("List", "pyfn",
         <<NWord(Id(<<"n">>)), NStr(<<"r","#","f","n">>), NStr(<<"*">>)>>, <<>>)

\* #[pyfn(m)]
PyfnOne == Attr("List", "pyfn", <<NWord(Id(<<"m">>))>>, <<>>)

\* #[pyfn("m", "f")]
PyfnFirstLit == Attr("List", "pyfn", <<NStr(<<"m">>), NStr(<<"f">>)>>, <<>>)

\* #[pyfn(m, f)]
PyfnSecondWord ==
    Attr("List", "pyfn", <<NWord(Id(<<"m">>)), NWord(Id(<<"f">>))>>, <<>>)

\* #[pyfn(m, "fn")]
PyfnKeyword ==
    Attr("List", "pyfn", <<NWord(Id(<<"m">>)), NStr(<<"f","n">>)>>, <<>>)

\* #[doc = "d"]
DocAttr == Attr("NameValue", "doc", <<>>, <<"d">>)

\* #[pyfn]
PyfnWord == Attr("Word", "pyfn", <<>>, <<>>)

\* #[allow(x)]
AllowList == Attr("List", "allow", <<NWord(Id(<<"x">>))>>, <<>>)

AttrSet == {PyfnTwo, PyfnThree, PyfnOne, DocAttr, PyfnWord, AllowList}

SeqsUpTo(S, n) == UNION {[1..k -> S] : k \in 0..n}

AttrLists == SeqsUpTo(AttrSet, MaxAttrs)

PathTy(segments) == [ty |-> "Path", segments |-> segments]

PatIdent(id) ==
    [pat |-> "Ident", ident |-> id, by_ref |-> FALSE, mutability |-> FALSE]

Captured(pat, ty) == [arg |-> "Captured", pat |-> pat, ty |-> ty]

NoPat == [pat |-> "None"]

Receiver(kind) == [arg |-> kind, pat |-> NoPat, ty |-> [ty |-> "None", segments |-> <<>>]]

\* x: i32
ArgInt == Captured(PatIdent(Id(<<"x">>)), PathTy(<<"i32">>))

\* py: pyo3::Python
ArgPy == Captured(PatIdent(Id(<<"p","y">>)), PathTy(<<"pyo3", "Python">>))

\* o: Option<i32>
ArgOpt == Captured(PatIdent(Id(<<"o">>)), PathTy(<<"Option">>))

\* r: &Python
ArgRef == Captured(PatIdent(Id(<<"r">>)), [ty |-> "Reference", segments |-> <<"Python">>])

\* _: i32
ArgWild == Captured([pat |-> "Wild"], PathTy(<<"i32">>))

ArgSet ==
    {Receiver("SelfRef"), Receiver("SelfValue"), ArgInt, ArgPy, ArgOpt, ArgRef,
     ArgWild, Receiver("Ignored"), Receiver("Inferred")}

InputLists == SeqsUpTo(ArgSet, MaxInputs)

FnItem(attrs, ident, inputs, body) ==
    [kind |-> "Fn", attrs |-> attrs, ident |-> ident, inputs |-> inputs,
     output |-> "Default", body |-> body]

\* a function nested one level deeper, carrying a pyfn attribute
InnerFn == FnItem(<<PyfnTwo>>, Id(<<"h">>), <<>>, <<>>)

FnItems ==
    {FnItem(a, Id(<<"f">>), <<ArgInt>>, <<>>) : a \in AttrLists}
    \cup {FnItem(<<a>>, Id(<<"f">>), <<>>, <<>>) :
            a \in {PyfnFirstLit, PyfnSecondWord, PyfnKeyword}}
    \cup {FnItem(<<DocAttr, PyfnTwo>>, RawId(<<"f","n">>), <<ArgPy, ArgInt>>, <<>>),
          FnItem(<<PyfnThree>>, Id(<<"g">>), <<Receiver("Ignored")>>, <<>>),
          FnItem(<<AllowList>>, Id(<<"g">>), <<>>, <<InnerFn>>)}

\* the statements that surround the function under study
PlainStmts ==
    {FnItem(<<PyfnTwo>>, Id(<<"g">>), <<ArgInt>>, <<>>),
     FnItem(<<PyfnWord>>, Id(<<"h">>), <<>>, <<>>),
     [kind |-> "Local", ident |-> Id(<<"x">>)],
     [kind |-> "Expr", block |-> <<InnerFn>>]}

\* statement lists of at most MaxStmts statements: plain statements, one of
\* them possibly replaced by any function of FnItems
Bodies ==
    LET plain == SeqsUpTo(PlainStmts, MaxStmts) IN
    plain \cup UNION {{[b EXCEPT ![q] = f] : f \in FnItems, q \in 1..Len(b)} :
                        b \in plain}

ModuleIdents == {Id(<<"m">>), Id(<<"m","2">>), RawId(<<"f","n">>)}

InitArgs ==
    {[fnname |-> f, name |-> n, doc |-> d] :
        f \in {Id(<<"i">>), Id(<<"j">>)}, n \in ModuleIdents,
        d \in {<<>>, <<"d">>}}

AddFnArgs ==
    {[func |-> FnItem(<<DocAttr>>, n, ins, <<>>), python_name |-> Id(<<"g">>),
      pyfn_attrs |-> <<>>] :
        n \in {Id(<<"f">>), RawId(<<"f","n">>)}, ins \in InputLists}

PyclassArgs ==
    {[item |-> "enum", options |-> [subclass |-> s, extends |-> e]] :
        s \in BOOLEAN, e \in BOOLEAN}

\* ---------------------------------------------------------------- state
VARIABLES call, args, pc, block, stmts, i, pyfn, arguments, j, out

vars == <<call, args, pc, block, stmts, i, pyfn, arguments, j, out>>

NoPyfn == [module_name |-> Id(<<>>), python_name |-> Id(<<>>), pyfn_attrs |-> <<>>]

Init ==
    /\ \/ call = "py3_init" /\ args \in InitArgs
       \/ call = "py2_init" /\ args \in InitArgs
       \/ call = "process_functions_in_module"
            /\ args \in {[func |-> [ident |-> Id(<<"m">>), stmts |-> b]] : b \in Bodies}
       \/ call = "add_fn_to_module" /\ args \in AddFnArgs
       \/ call = "pyclass" /\ args \in PyclassArgs
    /\ pc = "call"
    /\ block = IF call = "process_functions_in_module" THEN args.func.stmts ELSE <<>>
    /\ stmts = <<>>
    /\ i = 1
    /\ pyfn = IF call = "add_fn_to_module"
              THEN [module_name |-> Id(<<>>), python_name |-> args.python_name,
                    pyfn_attrs |-> args.pyfn_attrs]
              ELSE NoPyfn
    /\ arguments = <<>>
    /\ j = 1
    /\ out = NoTokens

\* the function add_fn_to_module is working on
CurFn == IF call = "process_functions_in_module" THEN block[i] ELSE args.func

Py3Init ==
    /\ call = "py3_init" /\ pc = "call"
    /\ LET r == py3_init(args.fnname, args.name, args.doc) IN
         IF r.panic
         THEN pc' = "panicked" /\ out' = out
         ELSE pc' = "done" /\ out' = r.val
    /\ UNCHANGED <<call, args, block, stmts, i, pyfn, arguments, j>>

Py2Init ==
    /\ call = "py2_init" /\ pc = "call"
    /\ LET r == py2_init(args.fnname, args.name, args.doc) IN
         IF r.panic
         THEN pc' = "panicked" /\ out' = out
         ELSE pc' = "done" /\ out' = r.val
    /\ UNCHANGED <<call, args, block, stmts, i, pyfn, arguments, j>>

\* line 42
ProcessBegin ==
    /\ call = "process_functions_in_module" /\ pc = "call"
    /\ stmts' = <<>>
    /\ i' = 1
    /\ pc' = "loop"
    /\ UNCHANGED <<call, args, block, pyfn, arguments, j, out>>

\* lines 44-48 and 60: one pass of `for stmt in func.block.stmts.iter_mut()`
\* up to the call of add_fn_to_module
LoopStep ==
    /\ call = "process_functions_in_module" /\ pc = "loop"
    /\ i <= Len(block)
    /\ IF block[i].kind = "Fn"
       THEN LET r == extract_pyfn_attrs(block[i].attrs) IN
            IF r.panic
            THEN /\ pc' = "panicked"
                 /\ UNCHANGED <<block, stmts, i, pyfn, arguments, j>>
            ELSE /\ block' = [block EXCEPT ![i].attrs = r.val.attrs]
                 /\ IF r.val.ret.some
                    THEN /\ pyfn' = r.val.ret.val
                         /\ arguments' = <<>>
                         /\ j' = 1
                         /\ pc' = "args"
                         /\ UNCHANGED <<stmts, i>>
                    ELSE /\ stmts' = Append(stmts, block'[i])
                         /\ i' = i + 1
                         /\ UNCHANGED <<pc, pyfn, arguments, j>>
       ELSE /\ stmts' = Append(stmts, block[i])
            /\ i' = i + 1
            /\ UNCHANGED <<pc, block, pyfn, arguments, j>>
    /\ UNCHANGED <<call, args, out>>

\* line 166
AddFnBegin ==
    /\ call = "add_fn_to_module" /\ pc = "call"
    /\ arguments' = <<>>
    /\ j' = 1
    /\ pc' = "args"
    /\ UNCHANGED <<call, args, block, stmts, i, pyfn, out>>

\* lines 168-172: one pass of `for input in func.decl.inputs.iter()`
WrapArg ==
    /\ pc = "args"
    /\ j <= Len(CurFn.inputs)
    /\ LET r == wrap_fn_argument(CurFn.inputs[j], CurFn.ident) IN
         IF r.panic
         THEN pc' = "panicked" /\ UNCHANGED <<arguments, j>>
         ELSE /\ arguments' = IF r.val.some THEN Append(arguments, r.val.val)
                                            ELSE arguments
              /\ j' = j + 1
              /\ pc' = pc
    /\ UNCHANGED <<call, args, block, stmts, i, pyfn, out>>

\* lines 174-213, returning to a direct caller of add_fn_to_module
AddFnReturn ==
    /\ call = "add_fn_to_module" /\ pc = "args"
    /\ j > Len(CurFn.inputs)
    /\ LET t == add_fn_tokens(CurFn, pyfn.python_name, pyfn.pyfn_attrs, arguments) IN
         IF t.panic
         THEN pc' = "panicked" /\ out' = out
         ELSE pc' = "done" /\ out' = t.val
    /\ UNCHANGED <<call, args, block, stmts, i, pyfn, arguments, j>>

\* lines 174-213 returning into lines 49-60: the two statements of
\* block_wrapper are appended, then the function item itself
ProcessEmit ==
    /\ call = "process_functions_in_module" /\ pc = "args"
    /\ j > Len(CurFn.inputs)
    /\ LET t == add_fn_tokens(CurFn, pyfn.python_name, pyfn.pyfn_attrs, arguments)
           reg == registration(pyfn.module_name, block[i].ident)
       IN  IF t.panic \/ reg.panic
           THEN pc' = "panicked" /\ UNCHANGED <<stmts, i>>
           ELSE /\ stmts' = extend_and_push(stmts, t.val, reg.val, block[i])
                /\ i' = i + 1
                /\ pc' = "loop"
    /\ UNCHANGED <<call, args, block, pyfn, arguments, j, out>>

\* line 63
Replace ==
    /\ call = "process_functions_in_module" /\ pc = "loop"
    /\ i > Len(block)
    /\ block' = stmts
    /\ pc' = "done"
    /\ UNCHANGED <<call, args, stmts, i, pyfn, arguments, j, out>>

PyclassEnum ==
    /\ call = "pyclass" /\ pc = "call"
    /\ LET r == build_py_enum(args.options) IN
         /\ pc' = IF r.error THEN "error" ELSE "done"
         /\ out' = r.tokens
    /\ UNCHANGED <<call, args, block, stmts, i, pyfn, arguments, j>>

Next ==
    \/ Py3Init
    \/ Py2Init
    \/ ProcessBegin
    \/ LoopStep
    \/ AddFnBegin
    \/ WrapArg
    \/ AddFnReturn
    \/ ProcessEmit
    \/ Replace
    \/ PyclassEnum

Spec == Init /\ [][Next]_vars

\* ============================================================ properties
IsProcess == call = "process_functions_in_module"

IsAddFn == call = "add_fn_to_module"

\* the statement list the module function was given
Orig == args.func.stmts

ListFormPyfn(a) == a.meta = "List" /\ a.ident = "pyfn"

NotListFormPyfn(a) == ~ListFormPyfn(a)

HasPyfn(stmt) ==
    stmt.kind = "Fn" /\ \E k \in 1..Len(stmt.attrs) : ListFormPyfn(stmt.attrs[k])

LastPyfn(stmt) ==
    LET l == SelectSeq(stmt.attrs, ListFormPyfn) IN l[Len(l)]

IdentText(text) ==
    /\ Len(text) > 0
    /\ LET t == IF Len(text) > 2 /\ text[1] = "r" /\ text[2] = "#"
                THEN SubSeq(text, 3, Len(text)) ELSE text
       IN  /\ t[1] \notin Digits
           /\ \A k \in 1..Len(t) : t[k] \in Letters \cup Digits \cup {"_"}
           /\ (t = text => t \notin Keywords)

Malformed(a) ==
    /\ ListFormPyfn(a)
    /\ \/ Len(a.nested) < 2
       \/ a.nested[1].nm # "Word"
       \/ a.nested[2].nm # "LitStr"
       \/ ~IdentText(a.nested[2].value)

HasMalformed(body) ==
    \E q \in 1..Len(body) :
        /\ body[q].kind = "Fn"
        /\ \E k \in 1..Len(body[q].attrs) : Malformed(body[q].attrs[k])

Generated(stmt) == stmt.kind \in {"GenFn", "Semi"}

\* C1: when a top-level function of the module function carries a malformed
\* list-form pyfn attribute, process_functions_in_module never returns (it
\* neither is done nor can reach the end of its loop) and the statement
\* list of the module function is never replaced: it keeps its length and
\* holds no generated statement.
C1_MalformedAborts ==
    (IsProcess /\ HasMalformed(Orig)) =>
        /\ pc # "done"
        /\ ~(pc = "loop" /\ i > Len(block))
        /\ Len(block) = Len(Orig)
        /\ \A q \in 1..Len(block) : ~Generated(block[q])

\* an abort on a malformed attribute after an earlier pyfn function was
\* already wrapped
C1_Witness ==
    /\ IsProcess /\ pc = "panicked" /\ HasMalformed(Orig)
    /\ i = 2 /\ Len(stmts) = 3
    /\ Orig[2].kind = "Fn" /\ Malformed(Orig[2].attrs[1])

IsSelf(input) == input.arg \in {"SelfRef", "SelfValue"}

NotSelf(input) == ~IsSelf(input)

Supported(input) ==
    IsSelf(input) \/ (input.arg = "Captured" /\ input.pat.pat = "Ident")

\* the argument list holds one entry per non-self input among the first n
ArgsMatch(arglist, inputs, n) ==
    LET nonself == SelectSeq(SubSeq(inputs, 1, n), NotSelf) IN
    /\ \A k \in 1..n : Supported(inputs[k])
    /\ Len(arglist) = Len(nonself)
    /\ \A k \in 1..Len(nonself) :
          /\ arglist[k].name = nonself[k].pat.ident
          /\ arglist[k].ty = nonself[k].ty

\* C2: wrap_fn_argument yields nothing for a self receiver, one FnArg for a
\* captured plain-identifier argument and aborts for every other input, so
\* while add_fn_to_module runs its argument list has one entry per non-self
\* input seen so far, in declaration order; it aborts exactly at an
\* unsupported input, and the specification it finally builds has one
\* entry per non-self input.
C2_ArgumentPatterns ==
    /\ pc = "args" => ArgsMatch(arguments, CurFn.inputs, j - 1)
    /\ (IsAddFn /\ pc = "panicked") =>
          /\ j <= Len(CurFn.inputs)
          /\ ~Supported(CurFn.inputs[j])
          /\ ArgsMatch(arguments, CurFn.inputs, j - 1)
    /\ (IsAddFn /\ pc = "done") =>
          ArgsMatch(out.wrap.body.result_of.extracts, CurFn.inputs,
                    Len(CurFn.inputs))

\* add_fn_to_module returned for a function with a self receiver followed
\* by a captured argument
C2_Witness ==
    /\ IsAddFn /\ pc = "done"
    /\ Len(CurFn.inputs) = 2
    /\ IsSelf(CurFn.inputs[1]) /\ CurFn.inputs[2].arg = "Captured"
    /\ Len(out.wrap.body.result_of.extracts) = 1

\* C3: for every module name N, py3_init emits exactly one exported C-ABI
\* function named PyInit_N and py2_init one named initN, whose body is one
\* call make_module(N followed by NUL, doc, fnname).
C3_EntryPoint ==
    (call \in {"py3_init", "py2_init"} /\ pc # "call") =>
        /\ pc = "done"
        /\ Len(out) = 1
        /\ out[1].kind = "ExternFn" /\ out[1].no_mangle /\ out[1].abi = "C"
        /\ to_string(out[1].ident) =
              (IF call = "py3_init" THEN PyInitPrefix ELSE InitPrefix)
                 \o to_string(args.name)
        /\ Len(out[1].body) = 1
        /\ out[1].body[1].callee = "make_module"
        /\ out[1].body[1].args =
              <<to_string(args.name) \o <<NUL>>, args.doc, args.fnname>>

\* what the code does: the claim of C3 for module names that are not raw
\* identifiers, and an abort for those that are
C3_PlainNames ==
    (call \in {"py3_init", "py2_init"} /\ pc # "call") =>
        IF args.name.raw THEN pc = "panicked" /\ out = NoTokens
        ELSE C3_EntryPoint

\* C4: the identifier registered with add_wrapped is the name of the
\* wrapper function emitted just before it, and both are
\* __pyo3_get_function_ followed by the function's name without r#.
C4_WrapperIdent ==
    /\ IsProcess =>
         \A p \in 1..Len(stmts) :
            stmts[p].kind = "GenFn" =>
               /\ p + 2 <= Len(stmts)
               /\ stmts[p + 1].kind = "Semi"
               /\ stmts[p + 2].kind = "Fn"
               /\ stmts[p + 1].arg = stmts[p].ident
               /\ stmts[p].ident = Id(WrapperPrefix \o stmts[p + 2].ident.sym)
    /\ (IsAddFn /\ pc = "done") =>
          out.ident = Id(WrapperPrefix \o args.func.ident.sym)

\* a wrapper and its registration were emitted for a raw-named function
C4_Witness ==
    /\ IsProcess
    /\ \E p \in 1..Len(stmts) :
          /\ stmts[p].kind = "GenFn"
          /\ p + 2 <= Len(stmts)
          /\ stmts[p + 2].ident.raw
          /\ stmts[p + 1].arg = stmts[p].ident

\* C5: an enum annotated with pyclass whose options hold `subclass` or
\* `extends = ...` is rejected with an error and yields no binding code.
C5_EnumRejected ==
    (call = "pyclass" /\ pc # "call" /\ args.item = "enum"
       /\ (args.options.subclass \/ args.options.extends)) =>
        pc = "error" /\ out = NoTokens

\* the expansion of `#[pyclass(extends = ...)] enum` has ended in an error
C5_Witness ==
    /\ call = "pyclass" /\ pc = "error"
    /\ args.options.extends /\ ~args.options.subclass

CountPyfn(n) == Cardinality({q \in 1..n : HasPyfn(Orig[q])})

\* where the q-th original statement stands once its predecessors and
\* itself have been handled
Pos(q) == q + 2 * CountPyfn(q)

StripPyfn(stmt) ==
    IF stmt.kind = "Fn"
    THEN [stmt EXCEPT !.attrs = SelectSeq(@, NotListFormPyfn)]
    ELSE stmt

\* C6: when process_functions_in_module returns, the body has n + 2k
\* statements; each original statement stands once, in order (a pyfn
\* function without its pyfn attributes, everything else untouched, nested
\* functions included), and right before each pyfn function stand its
\* wrapper function and then the add_wrapped registration on the module
\* identifier of its pyfn attribute.
C6_BodyLayout ==
    (IsProcess /\ pc = "done") =>
        /\ Len(block) = Len(Orig) + 2 * CountPyfn(Len(Orig))
        /\ \A q \in 1..Len(Orig) :
              /\ block[Pos(q)] = StripPyfn(Orig[q])
              /\ HasPyfn(Orig[q]) =>
                    /\ block[Pos(q) - 2].kind = "GenFn"
                    /\ block[Pos(q) - 2].wrap.body.result_of.cb.callee = Orig[q].ident
                    /\ block[Pos(q) - 1].kind = "Semi"
                    /\ block[Pos(q) - 1].method = "add_wrapped"
                    /\ block[Pos(q) - 1].recv = LastPyfn(Orig[q]).nested[1].ident
                    /\ block[Pos(q) - 1].arg = block[Pos(q) - 2].ident

\* a returned body where a statement holding a deeper pyfn function came
\* first and a pyfn function second
C6_Witness ==
    /\ IsProcess /\ pc = "done"
    /\ Len(Orig) = 2 /\ Len(block) = 4
    /\ Orig[1].kind = "Expr" /\ HasPyfn(Orig[1].block[1])
    /\ HasPyfn(Orig[2])

\* extract_pyfn_attrs has returned for the q-th statement
Extracted(q) == q < i \/ (q = i /\ pc = "args")

\* C7: once extract_pyfn_attrs has returned for a function, its attributes
\* are the original ones that are not list-form pyfn, in order; it returned
\* Some exactly when a list-form pyfn attribute was present; when none was,
\* the function item is unchanged and nothing was inserted for it.
C7_AttrsFrame ==
    (IsProcess /\ pc \in {"loop", "args", "panicked"}) =>
        /\ \A q \in 1..Len(block) :
              (block[q].kind = "Fn" /\ Extracted(q)) =>
                 /\ block[q].attrs = SelectSeq(Orig[q].attrs, NotListFormPyfn)
                 /\ ~HasPyfn(Orig[q]) => block[q] = Orig[q]
        /\ pc = "args" => HasPyfn(Orig[i])
        /\ pc \in {"loop", "args"} => Len(stmts) = Pos(i - 1)
        /\ \A q \in 1..(i - 1) :
              /\ Pos(q) <= Len(stmts)
              /\ IF HasPyfn(Orig[q])
                 THEN stmts[Pos(q) - 2].kind = "GenFn"
                 ELSE /\ stmts[Pos(q)] = Orig[q]
                      /\ Pos(q) - 1 = Pos(q - 1)

\* two functions handled: one lost its pyfn attribute and kept another
\* attribute, the other had only a word-form pyfn attribute and kept it
C7_Witness ==
    /\ IsProcess /\ pc = "loop" /\ i = 3
    /\ HasPyfn(Orig[1]) /\ Len(Orig[1].attrs) = 2 /\ Len(block[1].attrs) = 1
    /\ Orig[2].kind = "Fn" /\ Orig[2].attrs = <<PyfnWord>>
    /\ block[2].attrs = <<PyfnWord>>

PythonTy(ty) ==
    ty.ty = "Path" /\ Len(ty.segments) > 0 /\ ty.segments[Len(ty.segments)] = "Python"

DigitText == <<"0", "1", "2", "3", "4", "5", "6", "7", "8", "9">>

\* the wrapper w was generated for function f with Python name text pyname
WrapperFor(w, f, pyname) ==
    LET nonself == SelectSeq(f.inputs, NotSelf)
        cb == w.wrap.body.result_of.cb
    IN  /\ Len(cb.args) = Len(nonself)
        /\ \A k \in 1..Len(nonself) :
              /\ (cb.args[k] = Id(<<"_", "p", "y">>)) <=> PythonTy(nonself[k].ty)
              /\ ~PythonTy(nonself[k].ty) =>
                    cb.args[k] = Id(<<"a", "r", "g", DigitText[k]>>)
        /\ \A a, b \in 1..Len(nonself) :
              (a # b /\ ~PythonTy(nonself[a].ty) /\ ~PythonTy(nonself[b].ty))
                 => cb.args[a] # cb.args[b]
        /\ w.def.ml_name = pyname
        /\ cb.callee = f.ident
        /\ w.wrap.location = to_string(f.ident) \o <<"(", ")">>

\* C8: the generated C wrapper calls the user's function with one argument
\* per non-self parameter, in order: `_py` exactly for the parameters whose
\* type is a path ending in Python, `arg<i>` (i the 0-based position over
\* all non-self parameters) for the others; ml_name is the Python name
\* given to pyfn, the callee and the location string use the Rust name.
C8_CWrapper ==
    /\ IsProcess =>
         \A p \in 1..Len(stmts) :
            stmts[p].kind = "GenFn" =>
               /\ p + 2 <= Len(stmts)
               /\ \E q \in 1..Len(Orig) :
                     /\ Pos(q) = p + 2
                     /\ HasPyfn(Orig[q])
                     /\ WrapperFor(stmts[p], Orig[q], LastPyfn(Orig[q]).nested[2].value)
    /\ (IsAddFn /\ pc = "done") =>
          WrapperFor(out, args.func, to_string(args.python_name))

\* a wrapper whose first parameter is the interpreter token and whose
\* second is an ordinary argument, exported under another name
C8_Witness ==
    /\ IsProcess
    /\ \E p \in 1..Len(stmts) :
          /\ stmts[p].kind = "GenFn"
          /\ stmts[p].wrap.body.result_of.cb.args =
                <<Id(<<"_", "p", "y">>), Id(<<"a", "r", "g", "1">>)>>
          /\ stmts[p].def.ml_name # to_string(stmts[p].wrap.body.result_of.cb.callee)

\* C9: what extract_pyfn_attrs returns comes from one pyfn attribute, the
\* last: its module name, its Python name and its additional arguments
\* (none when it has exactly two parameters).
C9_SingleAttribute ==
    (IsProcess /\ pc = "args") =>
        LET last == LastPyfn(Orig[i]) IN
        /\ pyfn.module_name = last.nested[1].ident
        /\ to_string(pyfn.python_name) = last.nested[2].value
        /\ Len(pyfn.pyfn_attrs) = Len(last.nested) - 2
        /\ \A k \in 1..Len(pyfn.pyfn_attrs) :
              pyfn.pyfn_attrs[k].argument = last.nested[k + 2]

\* what the code does: module and Python name come from the last pyfn
\* attribute, the additional arguments from the last one that has any
C9_Observed ==
    (IsProcess /\ pc = "args") =>
        LET last == LastPyfn(Orig[i])
            withargs == SelectSeq(Orig[i].attrs,
                           LAMBDA a : ListFormPyfn(a) /\ Len(a.nested) >= 3)
        IN  /\ pyfn.module_name = last.nested[1].ident
            /\ to_string(pyfn.python_name) = last.nested[2].value
            /\ IF Len(withargs) = 0 THEN pyfn.pyfn_attrs = <<>>
               ELSE LET src == withargs[Len(withargs)] IN
                    /\ Len(pyfn.pyfn_attrs) = Len(src.nested) - 2
                    /\ \A k \in 1..Len(pyfn.pyfn_attrs) :
                          pyfn.pyfn_attrs[k].argument = src.nested[k + 2]

====
